---- MODULE Spec2Model ----
(***************************************************************************)
(* Model of src/src/lib_yaml.py: the extension classifier FILEextension,  *)
(* the single document loader read_yaml and the recursive directory       *)
(* collector read_yaml_from_dir.                                           *)
(*                                                                         *)
(* Strings (paths, names, keys) are sequences of one-character strings,    *)
(* so that suffix and stem extraction are computed as pathlib computes     *)
(* them.                                                                   *)
(***************************************************************************)
EXTENDS Integers, Sequences, FiniteSets, TLC

VARIABLES
    fs,                 \* the directory tree: path -> node
    path_to_dir,        \* argument of the top-level call
    on_error_continue,  \* argument of the top-level call
    max_depth,          \* argument of the top-level call
    stack,              \* frames of read_yaml_from_dir, innermost last
    reads,              \* read_yaml invocations of the call in progress
    handles,            \* files opened by read_yaml and not closed since
    results,            \* outcomes of the completed top-level calls
    token,              \* classifier input (classifier specification)
    kind                \* classifier output for token, or "pending"

vars == <<fs, path_to_dir, on_error_continue, max_depth, stack, reads,
          handles, results, token, kind>>

collectorVars == <<fs, path_to_dir, on_error_continue, max_depth, stack,
                   reads, handles, results>>

-----------------------------------------------------------------------------
(* Bounds of the model *)

\* longest classifier input
MaxTokenLen == 5
\* most entries below the root of a directory tree
MaxEntries == 3
\* largest max_depth argument (the smallest is -1)
MaxDepthArg == 2
\* top-level calls made on one tree
MaxCalls == 2
\* most entries below the root of a tree with symbolic links
MaxLinkedEntries == 2

-----------------------------------------------------------------------------
(* Strings *)

Alphabet == {"y", "a", "m", "l", "Y", ".", "/"}

RECURSIVE StringsOfLen(_)
StringsOfLen(n) ==
    IF n = 0 THEN {<<>>}
    ELSE {Append(s, c) : s \in StringsOfLen(n - 1), c \in Alphabet}

Tokens == UNION {StringsOfLen(n) : n \in 0..MaxTokenLen}

\* s[i:] with a 0-based start, as Python slices
SliceFrom(s, i) ==
    IF i >= Len(s) THEN <<>> ELSE SubSeq(s, i + 1, Len(s))

\* s[:i]
SliceTo(s, i) == SubSeq(s, 1, i)

\* str.rfind(c) within s[:i]: 0-based index of the last c, or -1
RFindBelow[s \in Seq(STRING), c \in STRING, i \in Nat] ==
    IF i = 0 THEN -1
    ELSE IF s[i] = c THEN i - 1
    ELSE RFindBelow[s, c, i - 1]

\* str.rfind(c)
RFind(s, c) == RFindBelow[s, c, Len(s)]

\* components of a path: the maximal "/"-free runs, without the empty ones
\* and without "." (pathlib drops both when it parses a path); cur is the
\* run being read at position i
SplitFrom[s \in Seq(STRING), i \in Nat, cur \in Seq(STRING)] ==
    LET keep == IF cur = <<>> \/ cur = <<".">> THEN <<>> ELSE <<cur>>
    IN  IF i > Len(s) THEN keep
        ELSE IF s[i] = "/" THEN keep \o SplitFrom[s, i + 1, <<>>]
        ELSE SplitFrom[s, i + 1, Append(cur, s[i])]

SplitParts(s) == SplitFrom[s, 1, <<>>]

\* the last of the components, or the empty string when there is none
LastPart[parts \in Seq(Seq(STRING))] ==
    IF parts = <<>> THEN <<>> ELSE parts[Len(parts)]

\* pathlib.PurePath.name
PathName(s) == LastPart[SplitParts(s)]

\* the suffix of a name: from its last dot, when that dot is neither its
\* first nor its last character
NameSuffix[name \in Seq(STRING)] ==
    LET i == RFind(name, ".")
    IN  IF 0 < i /\ i < Len(name) - 1 THEN SliceFrom(name, i) ELSE <<>>

\* the stem of a name: the name without its suffix
NameStem[name \in Seq(STRING)] ==
    LET i == RFind(name, ".")
    IN  IF 0 < i /\ i < Len(name) - 1 THEN SliceTo(name, i) ELSE name

\* pathlib.PurePath.suffix
PathSuffix(s) == NameSuffix[PathName(s)]

\* pathlib.PurePath.stem
PathStem(s) == NameStem[PathName(s)]

-----------------------------------------------------------------------------
(* FILEextension *)

\* FILEextension.YAMLext.value
YAMLext == {<<"y", "m", "l">>, <<"y", "a", "m", "l">>}

\* faulty variant: drops the test of the whole input against the aliases
FILEextensionSuffixOnly(s) ==
    IF SliceFrom(PathSuffix(s), 1) \in YAMLext THEN "YAMLext" ELSE "OTHERext"

\* faulty variant: matches the suffix with its leading dot still on
FILEextensionKeepDot(s) ==
    IF s \in YAMLext \/ PathSuffix(s) \in YAMLext THEN "YAMLext"
    ELSE "OTHERext"

\* FILEextension(s) for a string s: the value lookup misses, _missing_ decides
FILEextension(s) ==
    IF s \in YAMLext \/ SliceFrom(PathSuffix(s), 1) \in YAMLext
    THEN "YAMLext"
    ELSE "OTHERext"

-----------------------------------------------------------------------------
(* The directory tree *)

\* the directory the trees hang under; it always exists and can be listed
RootDir == <<"/", "r">>

\* entry names: both aliases on one stem, and a name without a suffix
Names == {<<"a", ".", "y", "m", "l">>, <<"a", ".", "y", "a", "m", "l">>, <<"c">>}

\* pathlib's "/" operator on an absolute directory path
Child(dir, name) == dir \o <<"/">> \o name

\* pathlib.PurePath.parent of an absolute path below RootDir
Parent(p) == SliceTo(p, RFind(p, "/"))

\* what a file holds: a document text, by the value or error it loads to
Contents == {"x:1", "y:2", "{}", "[]", "", "malformed"}

FileNodes == [type : {"file"}, content : Contents, readable : {TRUE}]

DirNodes == [type : {"dir"}, content : {""}, readable : BOOLEAN]

Nodes == FileNodes \cup DirNodes

\* a symbolic link back to a directory above it: the directory it lies in,
\* or RootDir
LinkNodes ==
    [type : {"link"}, content : {""}, readable : {TRUE}, target : {"parent", "root"}]

RECURSIVE PathSets(_)
PathSets(n) ==
    IF n = 0 THEN {{}}
    ELSE LET smaller == PathSets(n - 1)
         IN  smaller \cup
             {S \cup {Child(d, nm)} : S \in smaller, d \in {RootDir}, nm \in Names}
             \cup UNION {{S \cup {Child(d, nm)} : d \in S, nm \in Names} : S \in smaller}

\* an entry with entries below it is a directory the process can list
WellFormedTree(f) ==
    \A p \in DOMAIN f :
        Parent(p) # RootDir =>
            f[Parent(p)].type = "dir" /\ f[Parent(p)].readable

Trees ==
    UNION {{f \in [S -> Nodes] : WellFormedTree(f)} : S \in PathSets(MaxEntries)}

\* the entries of the trees with links: a document that loads, one that
\* does not, a directory, a link
LinkedNodes ==
    {n \in Nodes : n.content \in {"x:1", "malformed", ""} /\ n.type \in {"file", "dir"}}
        \cup LinkNodes

\* the trees in which one entry is a symbolic link to an ancestor; a link
\* of RootDir itself has RootDir for its one ancestor
LinkedTrees ==
    UNION {{f \in [S -> LinkedNodes] :
                /\ WellFormedTree(f)
                /\ Cardinality({p \in S : f[p].type = "link"}) = 1
                /\ \A p \in S : (f[p].type = "link" /\ Parent(p) = RootDir)
                                    => f[p].target = "root"} :
           S \in PathSets(MaxLinkedEntries)}

\* the last component of an absolute path
Entry(p) == SliceFrom(p, RFind(p, "/") + 1)

\* f_path is absolute(), which keeps the symbolic links on the path
\* where an entry leads: a link to its target, anything else to itself
Follow(q) ==
    IF q \in DOMAIN fs /\ fs[q].type = "link"
    THEN IF fs[q].target = "root" THEN RootDir ELSE Parent(q)
    ELSE q

\* the entry each path names once the operating system has followed the
\* symbolic links on it, component by component
Resolved[p \in Seq(STRING)] ==
    IF p = RootDir \/ \A e \in DOMAIN fs : fs[e].type # "link" THEN p
    ELSE CHOOSE r \in {Follow(q) : q \in {Child(Resolved[Parent(p)], Entry(p))}} : TRUE

Resolve(p) == Resolved[p]

Exists(p) == \E q \in {Resolve(p)} : q = RootDir \/ q \in DOMAIN fs

\* pathlib.Path.is_dir, which follows symbolic links
IsDir(p) ==
    \E q \in {Resolve(p)} : q = RootDir \/ (q \in DOMAIN fs /\ fs[q].type = "dir")

Readable(p) ==
    \E q \in {Resolve(p)} : q = RootDir \/ (q \in DOMAIN fs /\ fs[q].readable)

\* the entries of the directory dir names, as paths below dir
Children(dir) ==
    UNION {{Child(dir, Entry(q)) : q \in {e \in DOMAIN fs : Parent(e) = d}} :
           d \in {Resolve(dir)}}

\* every order in which the operating system may list a set of entries
Orders(S) ==
    {s \in [1..Cardinality(S) -> S] : \A i, j \in 1..Cardinality(S) : s[i] = s[j] => i = j}

\* the error pathlib.Path.iterdir raises on p, or "none"
IterdirError(p) ==
    IF ~Exists(p) THEN "FileNotFoundError"
    ELSE IF ~IsDir(p) THEN "NotADirectoryError"
    ELSE IF ~Readable(p) THEN "PermissionError"
    ELSE "none"

-----------------------------------------------------------------------------
(* Values *)

\* a dict with no keys
EmptyDict == [k \in {} |-> 0]

\* a loaded value or a collection, as one record shape: len is Python's len()
\* of a mapping or sequence, sub the entries of a collection
Value(type, len, id) == [type |-> type, len |-> len, id |-> id, sub |-> EmptyDict]

NoneValue == Value("none", 0, "")

\* a collection as the value stored under a directory's key
DictValue(d) ==
    [type |-> "dict", len |-> Cardinality(DOMAIN d), id |-> "", sub |-> d]

\* yaml.safe_load of a well-formed text
SafeLoad(text) ==
    CASE text = "x:1" -> Value("map", 1, "x:1")
      [] text = "y:2" -> Value("map", 1, "y:2")
      [] text = "{}"  -> Value("map", 0, "")
      [] text = "[]"  -> Value("seq", 0, "")
      [] OTHER        -> NoneValue

\* faulty variant: takes every value that is not None as true
BoolNotNone(v) == v.type # "none"

\* Python's bool() of a loaded value or a collection
Bool(v) == v.type # "none" /\ v.len > 0

-----------------------------------------------------------------------------
(* read_yaml *)

Loaded(v) == [ok |-> TRUE, value |-> v, err |-> "none"]
Failed(e) == [ok |-> FALSE, value |-> NoneValue, err |-> e]

\* open(p, 'r') followed by yaml.safe_load
OpenAndLoad(p) ==
    IF ~Exists(p) THEN Failed("FileNotFoundError")
    ELSE IF ~Readable(p) THEN Failed("PermissionError")
    ELSE IF IsDir(p) THEN Failed("IsADirectoryError")
    ELSE IF fs[Resolve(p)].content = "malformed" THEN Failed("YAMLError")
    ELSE Loaded(SafeLoad(fs[Resolve(p)].content))

read_yaml(p) ==
    IF FILEextension(p) = "YAMLext" THEN OpenAndLoad(p)
    ELSE Failed("YamlIOException")

\* open(p, 'r') of line 46 gives a file object
Opens(p) == FILEextension(p) = "YAMLext" /\ Exists(p) /\ Readable(p) /\ ~IsDir(p)

\* line 46 never closes the file object it opens. Once nothing refers to it
\* the interpreter may close it at once (reference counting) or leave it to
\* a later pass of the garbage collector: both are outcomes.
Unreferenced(open, p) == IF Opens(p) THEN {open, open \cup {p}} ELSE {open}

\* while an exception propagates, its traceback refers to the frames of
\* yaml.safe_load and, through them, to the file object: it stays open
HeldByTraceback(open, p) == IF Opens(p) THEN open \cup {p} ELSE open

-----------------------------------------------------------------------------
(* read_yaml_from_dir *)

\* the locals of one invocation: todo is what the for loop has still to
\* visit, its head the entry being processed
Frame(dir, order, depth) ==
    [path_to_dir |-> dir, todo |-> order, collection |-> EmptyDict,
     failed_yaml |-> <<>>, max_depth |-> depth]

Returned(collection, failed_yaml) ==
    [status |-> "returned", collection |-> collection,
     failed_yaml |-> failed_yaml, err |-> "none", path |-> <<>>]

Raised(err, path) ==
    [status |-> "raised", collection |-> EmptyDict, failed_yaml |-> <<>>,
     err |-> err, path |-> path]

\* collection[key] = new_item
SetItem(collection, key, new_item) ==
    [k \in DOMAIN collection \cup {key} |->
        IF k = key THEN new_item ELSE collection[k]]

\* faulty variant: stores whatever it is given
StoreAlways(collection, f_path, new_item) ==
    SetItem(collection, PathStem(f_path), new_item)

\* faulty variant: keeps the value a key already has
StoreFirstWins(collection, f_path, new_item) ==
    IF Bool(new_item) /\ PathStem(f_path) \notin DOMAIN collection
    THEN SetItem(collection, PathStem(f_path), new_item)
    ELSE collection

\* lines 99-100: if bool(new_item): collection[file_or_dir.stem] = new_item
Store(collection, f_path, new_item) ==
    IF Bool(new_item) THEN SetItem(collection, PathStem(f_path), new_item)
    ELSE collection

\* faulty variant: never recurses
BranchNoRecursion(f_path, depth) ==
    IF FILEextension(f_path) = "YAMLext" THEN "yaml" ELSE "ignore"

\* faulty variant: recurses into a directory whatever the depth left
BranchNoDepthTest(f_path, depth) ==
    IF IsDir(f_path) THEN "dir"
    ELSE IF FILEextension(f_path) = "YAMLext" THEN "yaml"
    ELSE "ignore"

\* faulty variant: hands every entry it does not enter to read_yaml
BranchNoClassifier(f_path, depth) ==
    IF IsDir(f_path) /\ depth > 0 THEN "dir" ELSE "yaml"

\* faulty variant: still recurses when the depth left is zero
BranchDepthOffByOne(f_path, depth) ==
    IF IsDir(f_path) /\ depth >= 0 THEN "dir"
    ELSE IF FILEextension(f_path) = "YAMLext" THEN "yaml"
    ELSE "ignore"

\* the if / elif / else of lines 79, 85 and 95
Branch(f_path, depth) ==
    IF IsDir(f_path) /\ depth > 0 THEN "dir"
    ELSE IF FILEextension(f_path) = "YAMLext" THEN "yaml"
    ELSE "ignore"

\* faulty variant: the failures of the subdirectory are put first
FailedHereFirst(failed_yaml, failed_here) == failed_here \o failed_yaml

\* line 82: failed_yaml += failed_here
ExtendFailed(failed_yaml, failed_here) == failed_yaml \o failed_here

\* faulty variant: goes on after a failed load whatever the caller asked
OnLoadFailureContinue(continue) == "continue"

\* lines 89-92: if on_error_continue: ... continue, else raise err
OnLoadFailure(continue) == IF continue THEN "continue" ELSE "raise"

Running == stack # <<>>
Top == stack[Len(stack)]
Current == Head(Top.todo)
Looping == Running /\ Top.todo # <<>>

ReplaceTop(frame) == [stack EXCEPT ![Len(stack)] = frame]

\* an exception no frame catches: every invocation is abandoned
Unwind(err, path) ==
    /\ stack' = <<>>
    /\ results' = Append(results, Raised(err, path))

Unchanging == UNCHANGED <<fs, path_to_dir, on_error_continue, max_depth, token, kind>>

\* the top-level call, on a directory that can be listed
Call ==
    /\ ~Running
    /\ Len(results) < MaxCalls
    /\ IterdirError(path_to_dir) = "none"
    /\ \E order \in Orders(Children(path_to_dir)) :
          stack' = <<Frame(path_to_dir, order, max_depth)>>
    /\ reads' = <<>>
    /\ UNCHANGED <<handles, results>>
    /\ Unchanging

\* the top-level call, when iterdir raises on its argument
CallRaises ==
    /\ ~Running
    /\ Len(results) < MaxCalls
    /\ IterdirError(path_to_dir) # "none"
    /\ Unwind(IterdirError(path_to_dir), path_to_dir)
    /\ reads' = <<>>
    /\ UNCHANGED handles
    /\ Unchanging

\* lines 79-81: the recursive call starts its loop
Descend ==
    /\ Looping
    /\ Branch(Current, Top.max_depth) = "dir"
    /\ IterdirError(Current) = "none"
    /\ \E order \in Orders(Children(Current)) :
          stack' = Append(stack, Frame(Current, order, Top.max_depth - 1))
    /\ UNCHANGED <<reads, handles, results>>
    /\ Unchanging

\* lines 79-81: iterdir raises inside the recursive call, outside any try
DescendRaises ==
    /\ Looping
    /\ Branch(Current, Top.max_depth) = "dir"
    /\ IterdirError(Current) # "none"
    /\ Unwind(IterdirError(Current), Current)
    /\ UNCHANGED <<reads, handles>>
    /\ Unchanging

\* line 102 of an inner invocation, then lines 80-82 and 99-100 of its caller
ReturnToCaller ==
    /\ Running
    /\ Top.todo = <<>>
    /\ Len(stack) > 1
    /\ LET caller      == stack[Len(stack) - 1]
           new_item    == DictValue(Top.collection)
           failed_here == Top.failed_yaml
       IN  stack' = [SubSeq(stack, 1, Len(stack) - 1) EXCEPT ![Len(stack) - 1] =
                        [caller EXCEPT
                            !.failed_yaml = ExtendFailed(caller.failed_yaml, failed_here),
                            !.collection  = Store(caller.collection, Head(caller.todo), new_item),
                            !.todo        = Tail(caller.todo)]]
    /\ UNCHANGED <<reads, handles, results>>
    /\ Unchanging

\* line 102 of the top-level invocation
ReturnToTop ==
    /\ Running
    /\ Top.todo = <<>>
    /\ Len(stack) = 1
    /\ stack' = <<>>
    /\ results' = Append(results, Returned(Top.collection, Top.failed_yaml))
    /\ UNCHANGED <<reads, handles>>
    /\ Unchanging

\* lines 85-87 and 99-100: the document loads
LoadDocument ==
    /\ Looping
    /\ Branch(Current, Top.max_depth) = "yaml"
    /\ read_yaml(Current).ok
    /\ reads' = Append(reads, [path |-> Current, ok |-> TRUE])
    /\ stack' = ReplaceTop([Top EXCEPT
                    !.collection = Store(Top.collection, Current, read_yaml(Current).value),
                    !.todo       = Tail(Top.todo)])
    /\ handles' \in Unreferenced(handles, Current)
    /\ UNCHANGED results
    /\ Unchanging

\* lines 88-91: the load fails and the caller asked to go on
LoadFailsContinue ==
    /\ Looping
    /\ Branch(Current, Top.max_depth) = "yaml"
    /\ ~read_yaml(Current).ok
    /\ OnLoadFailure(on_error_continue) = "continue"
    /\ reads' = Append(reads, [path |-> Current, ok |-> FALSE])
    /\ stack' = ReplaceTop([Top EXCEPT
                    !.failed_yaml = Append(Top.failed_yaml, Current),
                    !.todo        = Tail(Top.todo)])
    /\ handles' \in Unreferenced(handles, Current)
    /\ UNCHANGED results
    /\ Unchanging

\* lines 88-92: the load fails and the error is raised again
LoadFailsRaise ==
    /\ Looping
    /\ Branch(Current, Top.max_depth) = "yaml"
    /\ ~read_yaml(Current).ok
    /\ OnLoadFailure(on_error_continue) = "raise"
    /\ reads' = Append(reads, [path |-> Current, ok |-> FALSE])
    /\ handles' = HeldByTraceback(handles, Current)
    /\ Unwind(read_yaml(Current).err, Current)
    /\ Unchanging

\* lines 95-96: neither a directory to enter nor a YAML name
Ignore ==
    /\ Looping
    /\ Branch(Current, Top.max_depth) = "ignore"
    /\ stack' = ReplaceTop([Top EXCEPT !.todo = Tail(Top.todo)])
    /\ UNCHANGED <<reads, handles, results>>
    /\ Unchanging

\* the garbage collector closes the file objects nothing refers to
Finalize ==
    /\ handles # {}
    /\ handles' = {}
    /\ UNCHANGED <<stack, reads, results>>
    /\ Unchanging

\* the arguments a caller may pass: the root directory or a file in it
Roots(tree) ==
    {RootDir} \cup {p \in DOMAIN tree : Parent(p) = RootDir /\ tree[p].type = "file"}

Init ==
    /\ fs \in Trees
    /\ path_to_dir \in Roots(fs)
    /\ on_error_continue \in BOOLEAN
    /\ max_depth \in (-1)..MaxDepthArg
    /\ stack = <<>>
    /\ reads = <<>>
    /\ handles = {}
    /\ results = <<>>
    /\ token = <<>>
    /\ kind = "pending"

Next ==
    \/ Call
    \/ CallRaises
    \/ Descend
    \/ DescendRaises
    \/ ReturnToCaller
    \/ ReturnToTop
    \/ LoadDocument
    \/ LoadFailsContinue
    \/ LoadFailsRaise
    \/ Ignore
    \/ Finalize

Spec == Init /\ [][Next]_vars

\* the arguments of a call on a tree with symbolic links to ancestors
CycleInit ==
    /\ fs \in LinkedTrees
    /\ path_to_dir \in Roots(fs)
    /\ on_error_continue \in BOOLEAN
    /\ max_depth \in (-1)..MaxDepthArg
    /\ stack = <<>>
    /\ reads = <<>>
    /\ handles = {}
    /\ results = <<>>
    /\ token = <<>>
    /\ kind = "pending"

\* what the interpreter does next inside a call: it runs on until the call
\* returns or raises
Step ==
    \/ Descend
    \/ DescendRaises
    \/ ReturnToCaller
    \/ ReturnToTop
    \/ LoadDocument
    \/ LoadFailsContinue
    \/ LoadFailsRaise
    \/ Ignore

CycleSpec == CycleInit /\ [][Next]_vars /\ WF_vars(Step)

-----------------------------------------------------------------------------
(* The classifier on its own *)

ClassifierIdle ==
    UNCHANGED <<fs, path_to_dir, on_error_continue, max_depth, stack, reads,
                handles, results>>

\* FILEextension(token)
Classify ==
    /\ kind = "pending"
    /\ kind' = FILEextension(token)
    /\ UNCHANGED token
    /\ ClassifierIdle

ClassifierInit ==
    /\ fs = EmptyDict
    /\ path_to_dir = RootDir
    /\ on_error_continue = FALSE
    /\ max_depth = 0
    /\ stack = <<>>
    /\ reads = <<>>
    /\ handles = {}
    /\ results = <<>>
    /\ token \in Tokens
    /\ kind = "pending"

ClassifierNext == Classify

ClassifierSpec == ClassifierInit /\ [][ClassifierNext]_vars

-----------------------------------------------------------------------------
(* The classifier's claims, under ClassifierSpec *)

NoDot(s) == \A i \in 1..Len(s) : s[i] # "."

Extension(p) == SliceFrom(PathSuffix(p), 1)

\* C8: on a bare suffix (a string without a dot) the classifier answers, and
\* answers YAMLext for exactly the two spellings yml and yaml, OTHERext for
\* every other one, the empty string and other capitalisations included.
C8_ExactAliases ==
    (kind # "pending" /\ NoDot(token)) =>
        kind = IF token = <<"y", "m", "l">> \/ token = <<"y", "a", "m", "l">>
               THEN "YAMLext" ELSE "OTHERext"

C8_Witness ==
    /\ token = <<"Y", "a", "m", "l">>
    /\ kind = "OTHERext"

\* C9 as stated: every path classifies as its extracted extension does.
C9_PathAgreesWithExtension ==
    kind # "pending" => kind = FILEextension(Extension(token))

\* C9 amended: every path other than the two bare aliases themselves
\* classifies as its extracted extension does.
C9_PathAgreesUnlessAlias ==
    (kind # "pending" /\ token # <<"y", "m", "l">> /\ token # <<"y", "a", "m", "l">>) =>
        kind = FILEextension(Extension(token))

C9_Witness ==
    /\ token = <<"a", ".", "y", "m", "l">>
    /\ kind = "YAMLext"

-----------------------------------------------------------------------------
(* The collector's claims, under Spec *)

Indices(seq) == 1..Len(seq)

\* the completed calls made on the root directory
Completed == {results[i] : i \in Indices(results)}

IsFile(p) == p \in DOMAIN fs /\ fs[p].type = "file"

\* the recognized documents of a directory: its files with a YAML name
Documents(dir) == {p \in Children(dir) : IsFile(p) /\ FILEextension(p) = "YAMLext"}

\* the subdirectories a traversal with this budget enters
Entered(dir, depth) == IF depth > 0 THEN {p \in Children(dir) : IsDir(p)} ELSE {}

\* the subdirectories a traversal with this budget leaves alone
NotEntered(dir, depth) == IF depth > 0 THEN {} ELSE {p \in Children(dir) : IsDir(p)}

\* the recognized documents within the depth budget
RECURSIVE DocumentsWithin(_, _)
DocumentsWithin(dir, depth) ==
    Documents(dir) \cup UNION {DocumentsWithin(d, depth - 1) : d \in Entered(dir, depth)}

\* the directories within the depth budget, dir included
RECURSIVE DirectoriesWithin(_, _)
DirectoriesWithin(dir, depth) ==
    {dir} \cup UNION {DirectoriesWithin(d, depth - 1) : d \in Entered(dir, depth)}

\* the directories met with no budget left to enter them
RECURSIVE DirectoriesBeyond(_, _)
DirectoriesBeyond(dir, depth) ==
    NotEntered(dir, depth)
        \cup UNION {DirectoriesBeyond(d, depth - 1) : d \in Entered(dir, depth)}

WellFormed(p) == IsFile(p) /\ fs[p].readable /\ fs[p].content # "malformed"

Parsed(p) == SafeLoad(fs[p].content)

NonEmptyDocument(p) == WellFormed(p) /\ Parsed(p).type # "none" /\ Parsed(p).len > 0

EmptyDocument(p) == WellFormed(p) /\ ~NonEmptyDocument(p)

AllDocumentsGood == \A p \in DocumentsWithin(RootDir, max_depth) : NonEmptyDocument(p)

\* C1 as stated: one key per document and per traversed subdirectory
RECURSIVE MapsEveryEntry(_, _, _)
MapsEveryEntry(collection, dir, depth) ==
    /\ DOMAIN collection = {PathStem(p) : p \in Documents(dir) \cup Entered(dir, depth)}
    /\ \A p \in Documents(dir) : collection[PathStem(p)] = Parsed(p)
    /\ \A d \in Entered(dir, depth) :
          /\ collection[PathStem(d)].type = "dict"
          /\ MapsEveryEntry(collection[PathStem(d)].sub, d, depth - 1)

\* C1 as stated: strict mode on a tree of well-formed, non-empty documents
\* returns the Collection of every document and every traversed subdirectory
\* and an empty FailureLog.
C1_CollectsEveryEntry ==
    (path_to_dir = RootDir /\ ~on_error_continue /\ AllDocumentsGood) =>
        \A r \in Completed :
            /\ r.status = "returned"
            /\ r.failed_yaml = <<>>
            /\ MapsEveryEntry(r.collection, RootDir, max_depth)

\* a traversal of dir finds something to store
RECURSIVE HoldsSomething(_, _)
HoldsSomething(dir, depth) ==
    \/ Documents(dir) # {}
    \/ \E d \in Entered(dir, depth) : HoldsSomething(d, depth - 1)

\* the keys are the stems of the documents and of the subdirectories that
\* hold something; each key has the value of an entry with that stem
RECURSIVE MapsNonEmptyEntries(_, _, _)
MapsNonEmptyEntries(collection, dir, depth) ==
    LET kept == {d \in Entered(dir, depth) : HoldsSomething(d, depth - 1)}
    IN  /\ DOMAIN collection = {PathStem(p) : p \in Documents(dir) \cup kept}
        /\ \A k \in DOMAIN collection :
              \/ \E p \in Documents(dir) :
                    PathStem(p) = k /\ collection[k] = Parsed(p)
              \/ \E d \in kept :
                    /\ PathStem(d) = k
                    /\ collection[k].type = "dict"
                    /\ collection[k].len = Cardinality(DOMAIN collection[k].sub)
                    /\ MapsNonEmptyEntries(collection[k].sub, d, depth - 1)

\* what makes a strict traversal of such a tree raise: a directory within the
\* budget that cannot be listed, or a directory with a YAML name met when
\* the budget is spent (it is handed to read_yaml, see C6)
Obstacles ==
    {d \in DirectoriesWithin(RootDir, max_depth) : ~Readable(d)}
        \cup {d \in DirectoriesBeyond(RootDir, max_depth) : FILEextension(d) = "YAMLext"}

\* C1 amended: on such a tree a strict call either meets an obstacle and
\* raises on it, or returns an empty FailureLog and the Collection whose
\* keys, at every level, are the stems of the documents and of the traversed
\* subdirectories with a non-empty Collection, each key holding the value of
\* one entry with that stem.
C1_CollectsNonEmptyEntries ==
    (path_to_dir = RootDir /\ ~on_error_continue /\ AllDocumentsGood) =>
        \A r \in Completed :
            IF Obstacles = {}
            THEN /\ r.status = "returned"
                 /\ r.failed_yaml = <<>>
                 /\ MapsNonEmptyEntries(r.collection, RootDir, max_depth)
            ELSE /\ r.status = "raised"
                 /\ r.path \in Obstacles

\* a.yml and, in a subdirectory c, a document: both are in the result
C1_Witness ==
    /\ path_to_dir = RootDir /\ ~on_error_continue /\ AllDocumentsGood
    /\ Obstacles = {}
    /\ \E r \in Completed :
          /\ r.status = "returned"
          /\ DOMAIN r.collection = {<<"a">>, <<"c">>}
          /\ r.collection[<<"a">>].type = "map"
          /\ r.collection[<<"c">>].type = "dict"
          /\ r.collection[<<"c">>].sub # EmptyDict

Last(seq) == seq[Len(seq)]

FailedReads == {i \in Indices(reads) : ~reads[i].ok}

\* C2: in strict mode, once a document reached by the traversal fails to
\* load, the call is over: it has raised that document's error at the top
\* level, with no Collection and no FailureLog, and read nothing after it.
C2_StrictAllOrNothing ==
    (~on_error_continue /\ FailedReads # {}) =>
        /\ FailedReads = {Len(reads)}
        /\ ~Running
        /\ results # <<>>
        /\ Last(results).status = "raised"
        /\ Last(results).path = Last(reads).path
        /\ Last(results).err = read_yaml(Last(reads).path).err
        /\ Last(results).collection = EmptyDict
        /\ Last(results).failed_yaml = <<>>

\* a document in a subdirectory fails after a sibling of it was loaded
C2_Witness ==
    /\ ~on_error_continue
    /\ Len(reads) > 1
    /\ reads[1].ok
    /\ ~Last(reads).ok
    /\ Parent(Last(reads).path) # RootDir
    /\ IsFile(Last(reads).path)
    /\ Last(results).err = "YAMLError"

\* the recognized documents within the budget that fail to load
FailingDocuments ==
    {p \in DocumentsWithin(RootDir, max_depth) : ~WellFormed(p)}

\* the stems of the documents that load to a non-empty value and of the
\* subdirectories whose Collection has keys of its own
RECURSIVE HoldsLoaded(_, _)
HoldsLoaded(dir, depth) ==
    \/ \E p \in Documents(dir) : NonEmptyDocument(p)
    \/ \E d \in Entered(dir, depth) : HoldsLoaded(d, depth - 1)

RECURSIVE KeysOfLoaded(_, _, _)
KeysOfLoaded(collection, dir, depth) ==
    LET kept == {d \in Entered(dir, depth) : HoldsLoaded(d, depth - 1)}
        good == {p \in Documents(dir) : NonEmptyDocument(p)}
    IN  /\ DOMAIN collection = {PathStem(p) : p \in good \cup kept}
        /\ \A d \in kept :
              collection[PathStem(d)].type = "dict" =>
                  KeysOfLoaded(collection[PathStem(d)].sub, d, depth - 1)

ToSet(seq) == {seq[i] : i \in Indices(seq)}

\* C3: in tolerant mode the returned Collection has an entry for exactly the
\* documents that loaded to a non-empty value and the non-empty
\* sub-Collections, and the FailureLog holds exactly the paths of the
\* documents that failed to load.
C3_TolerantPartialSuccess ==
    (path_to_dir = RootDir /\ on_error_continue) =>
        \A r \in Completed :
            r.status = "returned" =>
                /\ ToSet(r.failed_yaml) = FailingDocuments
                /\ KeysOfLoaded(r.collection, RootDir, max_depth)

\* C4: in tolerant mode no error met below the root leaves the call.
C4_TolerantNeverRaises ==
    (path_to_dir = RootDir /\ on_error_continue) =>
        \A r \in Completed : r.status = "returned"

\* C5: a call on a single file loads it when its name is a YAML name,
\* returning the Collection of just that key in strict mode when it loads to
\* a non-empty value, and fails with YamlIOException when it is not.
C5_SingleFileRoot ==
    IsFile(path_to_dir) =>
        \A r \in Completed :
            /\ (FILEextension(path_to_dir) # "YAMLext") =>
                  (r.status = "raised" /\ r.err = "YamlIOException")
            /\ (FILEextension(path_to_dir) = "YAMLext" /\ NonEmptyDocument(path_to_dir)) =>
                  /\ r.status = "returned"
                  /\ r.collection =
                        SetItem(EmptyDict, PathStem(path_to_dir), Parsed(path_to_dir))

\* C6: with the budget spent, visiting a directory changes nothing but the
\* loop's position: nothing is stored, logged or raised for it.
C6_SpentBudgetSkipsDirectories ==
    [][(Looping /\ IsDir(Current) /\ Top.max_depth <= 0) =>
          /\ stack' = ReplaceTop([Top EXCEPT !.todo = Tail(Top.todo)])
          /\ results' = results]_vars

\* C7: two calls with the same arguments on the unchanged tree that both
\* return, return the same Collection and the same FailureLog, whatever the
\* order in which each call was given the entries of each directory.
C7_RepeatedCallsAgree ==
    (Len(results) >= 2 /\ results[1].status = "returned" /\ results[2].status = "returned") =>
        /\ results[1].collection = results[2].collection
        /\ results[1].failed_yaml = results[2].failed_yaml

RECURSIVE AllNonEmpty(_)
AllNonEmpty(collection) ==
    \A k \in DOMAIN collection :
        /\ collection[k].type # "none"
        /\ collection[k].len > 0
        /\ collection[k].type = "dict" =>
              /\ collection[k].sub # EmptyDict
              /\ AllNonEmpty(collection[k].sub)

\* C10: every Collection of a directory traversal, being built or returned,
\* holds only non-empty values at every level of nesting, and a document of
\* the tree that loads to an empty value is neither logged as a failure nor
\* raised as an error.
C10_OnlyNonEmptyValues ==
    path_to_dir = RootDir =>
    /\ \A i \in Indices(stack) :
          /\ AllNonEmpty(stack[i].collection)
          /\ \A p \in ToSet(stack[i].failed_yaml) : ~EmptyDocument(p)
    /\ \A r \in Completed :
          /\ AllNonEmpty(r.collection)
          /\ \A p \in ToSet(r.failed_yaml) : ~EmptyDocument(p)
          /\ r.status = "raised" => ~EmptyDocument(r.path)

\* an empty document was read and an empty subdirectory traversed, and the
\* call returned without a key for either
C10_Witness ==
    /\ path_to_dir = RootDir
    /\ \E i \in Indices(reads) : reads[i].ok /\ EmptyDocument(reads[i].path)
    /\ \E d \in Entered(RootDir, max_depth) : Readable(d) /\ ~HoldsLoaded(d, max_depth - 1)
    /\ results # <<>>
    /\ Last(results).status = "returned"
    /\ Last(results).collection = EmptyDict
    /\ Last(results).failed_yaml = <<>>

\* the subdirectories are stored under their full names, level by level
RECURSIVE KeyedByName(_, _, _)
KeyedByName(collection, dir, depth) ==
    \A d \in Entered(dir, depth) :
        (Readable(d) /\ HoldsLoaded(d, depth - 1)) =>
            /\ PathName(d) \in DOMAIN collection
            /\ collection[PathName(d)].type = "dict"
            /\ KeyedByName(collection[PathName(d)].sub, d, depth - 1)

\* C11: a traversed subdirectory with a non-empty Collection is stored under
\* its full base name, whatever the name, dots included.
C11_DirectoryKeyIsName ==
    path_to_dir = RootDir =>
        \A r \in Completed :
            r.status = "returned" => KeyedByName(r.collection, RootDir, max_depth)

\* the step ends the visit of an entry of the innermost loop
VisitEnds ==
    /\ Looping
    /\ Len(stack') = Len(stack)
    /\ stack'[Len(stack)].todo = Tail(Top.todo)

\* the step returns from a subdirectory to the loop that entered it
SubdirectoryEnds ==
    /\ Len(stack) > 1
    /\ Len(stack') = Len(stack) - 1

\* going from before to after, key was given value and no other key changed
Overwrote(before, after, key, value) ==
    /\ DOMAIN after = DOMAIN before \cup {key}
    /\ after[key] = value
    /\ \A k \in DOMAIN before : k # key => after[k] = before[k]

\* C12: an entry that writes replaces whatever an earlier sibling left under
\* its key and touches no other key; an entry that writes nothing (an empty
\* value, a failed load, a skipped entry) leaves the Collection as it was.
C12_LastWriteWins ==
    [][/\ VisitEnds =>
            IF IsFile(Current) /\ FILEextension(Current) = "YAMLext" /\ NonEmptyDocument(Current)
            THEN Overwrote(Top.collection, stack'[Len(stack)].collection,
                           PathStem(Current), Parsed(Current))
            ELSE stack'[Len(stack)].collection = Top.collection
       /\ SubdirectoryEnds =>
            LET caller == stack[Len(stack) - 1]
                after  == stack'[Len(stack) - 1].collection
            IN  IF Top.collection # EmptyDict
                THEN /\ Overwrote(caller.collection, after, PathStem(Head(caller.todo)),
                                  [type |-> "dict", len |-> Cardinality(DOMAIN Top.collection),
                                   id |-> "", sub |-> Top.collection])
                ELSE after = caller.collection]_vars

\* a.yml and a.yaml both loaded to a value, and the later one is what the
\* returned Collection holds under a
C12_Witness ==
    /\ path_to_dir = RootDir
    /\ Len(reads) = 2
    /\ reads[1].ok /\ reads[2].ok
    /\ Parent(reads[1].path) = RootDir /\ Parent(reads[2].path) = RootDir
    /\ NonEmptyDocument(reads[1].path) /\ NonEmptyDocument(reads[2].path)
    /\ Parsed(reads[1].path) # Parsed(reads[2].path)
    /\ ~Running
    /\ results # <<>>
    /\ Last(results).status = "returned"
    /\ Last(results).collection = SetItem(EmptyDict, <<"a">>, Parsed(reads[2].path))

\* C15: a traversal hands read_yaml only paths the classifier accepts, so
\* the format error YamlIOException is never raised by it nor behind an entry
\* of its FailureLog.
C15_OnlyClassifiedPathsRead ==
    path_to_dir = RootDir =>
        /\ \A i \in Indices(reads) :
              /\ FILEextension(reads[i].path) = "YAMLext"
              /\ read_yaml(reads[i].path).err # "YamlIOException"
        /\ \A r \in Completed : r.err # "YamlIOException"
        /\ \A i \in Indices(stack) : \A p \in ToSet(stack[i].failed_yaml) :
              read_yaml(p).err # "YamlIOException"
        /\ \A r \in Completed : \A p \in ToSet(r.failed_yaml) :
              read_yaml(p).err # "YamlIOException"

\* a file without a YAML name was passed over, a document beside it read
C15_Witness ==
    /\ path_to_dir = RootDir
    /\ IsFile(Child(RootDir, <<"c">>))
    /\ Len(reads) > 0
    /\ ~Running
    /\ results # <<>>
    /\ Last(results).status = "returned"

\* C13: every file read_yaml opened is closed by the time it returns or
\* raises, so between two steps of a traversal, and after it, none is open.
C13_HandlesReleased == handles = {}

RECURSIVE Flatten(_)
Flatten(seqs) == IF seqs = <<>> THEN <<>> ELSE Head(seqs) \o Flatten(Tail(seqs))

\* the paths of the reads that failed, in the order the reads were made
RECURSIVE FailedPaths(_)
FailedPaths(rs) ==
    IF rs = <<>> THEN <<>>
    ELSE (IF Head(rs).ok THEN <<>> ELSE <<Head(rs).path>>) \o FailedPaths(Tail(rs))

\* the failures logged so far by the invocations in progress, outermost first
PendingLog == Flatten([i \in Indices(stack) |-> stack[i].failed_yaml])

\* p lies below the directory d
Under(p, d) == Len(p) > Len(d) /\ SliceTo(p, Len(d)) = d /\ p[Len(d) + 1] = "/"

\* the failures below a directory, at any level, form one block
Contiguous(log) ==
    \A d \in {Parent(log[i]) : i \in Indices(log)} \cup
             {Parent(Parent(log[i])) : i \in {j \in Indices(log) : Parent(log[j]) # RootDir}} :
        \A i, j, k \in Indices(log) :
            (i < j /\ j < k /\ Under(log[i], d) /\ Under(log[k], d)) => Under(log[j], d)

NoDuplicates(log) == \A i, j \in Indices(log) : log[i] = log[j] => i = j

\* C14: the FailureLog holds the absolute paths of the failed reads in the
\* order the traversal made them, each once, the failures below any one
\* directory next to each other; a strict call that returns returns it empty.
C14_FailureLogOrder ==
    /\ Running => PendingLog = FailedPaths(reads)
    /\ (~Running /\ results # <<>> /\ Last(results).status = "returned") =>
          LET log == Last(results).failed_yaml
          IN  /\ log = FailedPaths(reads)
              /\ NoDuplicates(log)
              /\ Contiguous(log)
              /\ \A i \in Indices(log) : Head(log[i]) = "/"
              /\ ~on_error_continue => log = <<>>

\* a tolerant call returned a log with a failure of the root followed by two
\* failures below one subdirectory, the second a level further down
C14_Witness ==
    /\ on_error_continue
    /\ ~Running
    /\ results # <<>>
    /\ Last(results).status = "returned"
    /\ LET log == Last(results).failed_yaml
       IN  /\ Len(log) = 3
           /\ Parent(log[1]) = RootDir
           /\ Parent(log[2]) # RootDir
           /\ Under(log[3], Parent(log[2]))
           /\ Parent(log[3]) # Parent(log[2])

Max(a, b) == IF a > b THEN a ELSE b

\* C16: a call never has more than max(max_depth, 0) invocations below the
\* top-level one, and once started it comes to an end, by returning or by
\* raising, on trees with symbolic links back to an ancestor too.
C16_Terminates ==
    /\ [](Len(stack) <= Max(max_depth, 0) + 1)
    /\ (Running ~> ~Running)

\* the traversal went round a cycle: two levels down, it is listing RootDir
\* again under a longer path, with no depth left
C16_Witness ==
    /\ Running
    /\ max_depth >= 2
    /\ Len(stack) = max_depth + 1
    /\ Top.path_to_dir # RootDir
    /\ Resolve(Top.path_to_dir) = RootDir
    /\ Top.max_depth = 0

====
